---- MODULE Spec2Model ----
(***************************************************************************)
(* A model of libgitg/gitg-runner.c: the GitgRunner object, which spawns a *)
(* child, optionally writes input to it, reads its output in chunks of     *)
(* buffer_size, cuts the chunks into lines (parse_lines / find_newline /   *)
(* emit_rest) and reports begin-loading, update and end-loading signals,   *)
(* in a synchronized (blocking) and an asynchronous (GIO callbacks) mode.  *)
(*                                                                         *)
(* Three specifications share the module:                                  *)
(*   Spec     the runner's life cycle (run, cancel, I/O completions)       *)
(*   SegSpec  the line segmenter alone, fed a text in arbitrary chunks     *)
(*   EnvSpec  the environment vector under set_environment and             *)
(*            add_environment                                              *)
(* FairSpec is Spec with the fairness of the GLib main loop.               *)
(***************************************************************************)
EXTENDS Integers, Sequences, FiniteSets, TLC

\* ------------------------------------------------------------------ bounds
\* The length of the log up to which a behaviour starts runs and reads data:
\* a run is started, and a non-empty chunk is read, only while what they
\* append still fits. What ends a run is never held back.
MaxLog == 8
\* Length of the text the segmenter specification is fed.
MaxText == 4
\* Entries the environment vector grows to.
MaxEnv == 4

\* buffer_size: a construct-only property, > 0 (gitg_runner_new asserts it).
BufferSize == 2

\* ------------------------------------------------------- program constants
\* EXIT_FAILURE, the status gitg_runner_cancel records.
EXIT_FAILURE == 1
\* SIGTERM, the signal gitg_runner_cancel sends; as a wait status it is the
\* signal number itself.
SIGTERM == 15

\* Characters. The segmenter walks UTF-8 characters, so one element is one
\* character; CR and LF are the two it looks for.
CR == "CR"
LF == "LF"
Letters == {"a", "b"}
Char == Letters \cup {CR, LF}

VARIABLES
  \* struct _GitgRunnerPrivate
  pid,                    \* GPid pid; 0 when none
  input_stream,           \* GInputStream *; 0 is NULL, else the stream's id
  output_stream,          \* GOutputStream *; 0 is NULL, else the stream's id
  cancellable,            \* GCancellable *: the id of the current token
  rest_buffer,            \* rest_buffer / rest_buffer_size: the remainder
  exit_status,            \* gint exit_status
  synchronized,           \* construct-only
  preserve_line_endings,
  environment,            \* gchar **environment: NULL, or the entries
  last_add,               \* the arguments of the last gitg_runner_add_environment
  \* the world around the runner
  cancelled,              \* the tokens g_cancellable_cancel was called on
  pending,                \* async operations issued and not yet completed
  child,                  \* per spawned pid: "none", "running", "exit0", ...
  kills,                  \* per pid: how many times kill () was called on it
  watched,                \* the pids g_child_watch_add was called on
  reaped,                 \* the pids the runner's waitpid has reaped
  open_input,             \* the input streams (child's stdout) not closed
  open_output,            \* the output streams (child's stdin) not closed
  pc,                     \* where the main thread is inside a blocking call
  cancel_calls,           \* gitg_runner_cancel calls made in a row (0..2)
  \* history
  log,                    \* the signals emitted and the I/O issued, in order
  consumed,               \* the chunks of the current run handed to parse_lines
  delivered,              \* the characters of the current run's update lines
  ret,                    \* what the last run() call returned
  nruns,                  \* children spawned so far
  \* the segmenter specification
  segText,                \* the whole decoded text of the stream
  segPos,                 \* how much of it has been read
  segCuts,                \* the positions at which a chunk ended
  segEmpty,               \* whether an empty chunk has been fed
  segLines,               \* every line handed to update so far, in order
  segBatch,               \* the lines array after the last parse_lines
  segDone                 \* whether emit_rest has run

rvars == <<pid, input_stream, output_stream, cancellable, rest_buffer,
           exit_status, cancelled, child, log, delivered, pending,
           kills, watched, reaped, open_input, open_output>>
cvars == <<synchronized, preserve_line_endings, environment, last_add>>
svars == <<segText, segPos, segCuts, segEmpty, segLines, segBatch, segDone>>
vars == <<rvars, cvars, svars, pc, consumed, ret, nruns, cancel_calls>>

\* ------------------------------------------------------------ sequences
RECURSIVE Flatten(_)
Flatten(ss) == IF ss = <<>> THEN <<>> ELSE Head(ss) \o Flatten(Tail(ss))

IsPrefix(s, t) == Len(s) <= Len(t) /\ SubSeq(t, 1, Len(s)) = s

RECURSIVE DropTerminators(_)
DropTerminators(s) ==
  IF s = <<>> THEN <<>>
  ELSE IF Head(s) \in {CR, LF} THEN DropTerminators(Tail(s))
  ELSE <<Head(s)>> \o DropTerminators(Tail(s))

RECURSIVE SeqsUpTo(_, _)
SeqsUpTo(S, n) ==
  IF n = 0 THEN {<<>>}
  ELSE LET shorter == SeqsUpTo(S, n - 1)
       IN shorter \cup {Append(s, c) : s \in {t \in shorter : Len(t) = n - 1}, c \in S}

\* -------------------------------------------------------- line segmenter
\* find_newline (ptr, end, &line_end) over the buffer s, positions from 1,
\* end = Len(s) + 1. The result is NULL (found = FALSE) or the place of the
\* terminator (newline) and the place after it (line_end).
NotFound == [found |-> FALSE, newline |-> 0, line_end |-> 0]

\* A find_newline that ends the line at a CR without consuming the LF that
\* follows it.
RECURSIVE find_newline_split_crlf(_, _)
find_newline_split_crlf(s, ptr) ==
  IF ptr > Len(s) THEN NotFound
  ELSE IF s[ptr] = LF
    THEN [found |-> TRUE, newline |-> ptr, line_end |-> ptr + 1]
  ELSE IF s[ptr] = CR
    THEN IF ptr + 1 <= Len(s)
           THEN [found |-> TRUE, newline |-> ptr, line_end |-> ptr + 1]
           ELSE NotFound
  ELSE find_newline_split_crlf(s, ptr + 1)

\* A find_newline that does not wait for what follows a trailing CR.
RECURSIVE find_newline_eager(_, _)
find_newline_eager(s, ptr) ==
  IF ptr > Len(s) THEN NotFound
  ELSE IF s[ptr] = LF
    THEN [found |-> TRUE, newline |-> ptr, line_end |-> ptr + 1]
  ELSE IF s[ptr] = CR
    THEN IF ptr + 1 <= Len(s) /\ s[ptr + 1] = LF
           THEN [found |-> TRUE, newline |-> ptr, line_end |-> ptr + 2]
           ELSE [found |-> TRUE, newline |-> ptr, line_end |-> ptr + 1]
  ELSE find_newline_eager(s, ptr + 1)

RECURSIVE find_newline(_, _)
find_newline(s, ptr) ==
  IF ptr > Len(s) THEN NotFound
  ELSE IF s[ptr] = LF
    THEN [found |-> TRUE, newline |-> ptr, line_end |-> ptr + 1]
  ELSE IF s[ptr] = CR
    THEN IF ptr + 1 <= Len(s)
           THEN IF s[ptr + 1] = LF
                  THEN [found |-> TRUE, newline |-> ptr, line_end |-> ptr + 2]
                  ELSE [found |-> TRUE, newline |-> ptr, line_end |-> ptr + 1]
           ELSE NotFound
  ELSE find_newline(s, ptr + 1)

\* The while loop of parse_lines: lines[i++] = g_strndup (...); ptr = line_end.
RECURSIVE parse_loop(_, _, _, _)
parse_loop(all, ptr, lines, preserve) ==
  LET nl == find_newline(all, ptr) IN
  IF nl.found
    THEN parse_loop(all, nl.line_end,
                    Append(lines, IF preserve
                                    THEN SubSeq(all, ptr, nl.line_end - 1)
                                    ELSE SubSeq(all, ptr, nl.newline - 1)),
                    preserve)
    ELSE [lines |-> lines, rest |-> SubSeq(all, ptr, Len(all))]

\* A parse_lines that keeps the whole buffer as the remainder, as if ptr had
\* not moved past the lines it cut.
segment_rest_whole(rest, buffer, preserve) ==
  [lines |-> parse_loop(rest \o buffer, 1, <<>>, preserve).lines,
   rest |-> rest \o buffer]

\* parse_lines without its signal: the batch of lines and the new remainder.
segment(rest, buffer, preserve) == parse_loop(rest \o buffer, 1, <<>>, preserve)

\* An emit_rest that drops the trailing CR whatever the policy.
rest_lines_always_strip(rest, preserve) ==
  IF Len(rest) > 0
    THEN IF rest[Len(rest)] = CR
           THEN <<SubSeq(rest, 1, Len(rest) - 1)>>
           ELSE <<rest>>
    ELSE <<>>

\* An emit_rest that never drops the trailing CR.
rest_lines_keep_cr(rest, preserve) == IF Len(rest) > 0 THEN <<rest>> ELSE <<>>

\* emit_rest without its signal: the lines it hands to update (none, or one).
rest_lines(rest, preserve) ==
  IF Len(rest) > 0
    THEN IF ~preserve /\ rest[Len(rest)] = CR
           THEN <<SubSeq(rest, 1, Len(rest) - 1)>>
           ELSE <<rest>>
    ELSE <<>>

\* gchar **environment: NULL, or a vector of entries. An entry "KEY=VALUE"
\* is the pair of its key and its value.
NullEnvironment == [is_null |-> TRUE, strv |-> <<>>]

\* ------------------------------------------------------- runner, as data
\* The fields the functions below read and write, as one record, so that a
\* function calling another (run calls cancel, cancel calls close_streams)
\* is a composition.
Cur ==
  [pid |-> pid, input_stream |-> input_stream, output_stream |-> output_stream,
   cancellable |-> cancellable, rest_buffer |-> rest_buffer,
   exit_status |-> exit_status, cancelled |-> cancelled, child |-> child,
   log |-> log, delivered |-> delivered, pending |-> pending,
   kills |-> kills, watched |-> watched, reaped |-> reaped,
   open_input |-> open_input, open_output |-> open_output]

Commit(r) ==
  /\ pid' = r.pid
  /\ input_stream' = r.input_stream
  /\ output_stream' = r.output_stream
  /\ cancellable' = r.cancellable
  /\ rest_buffer' = r.rest_buffer
  /\ exit_status' = r.exit_status
  /\ cancelled' = r.cancelled
  /\ child' = r.child
  /\ log' = r.log
  /\ delivered' = r.delivered
  /\ pending' = r.pending
  /\ kills' = r.kills
  /\ watched' = r.watched
  /\ reaped' = r.reaped
  /\ open_input' = r.open_input
  /\ open_output' = r.open_output

\* g_signal_emit
emit(r, signal) == [r EXCEPT !.log = Append(@, signal)]

\* A wait status as waitpid stores it: the exit code in bits 8..15, the
\* terminating signal in the low bits.
wait_status(state) ==
  CASE state = "exit0" -> 0
    [] state = "exit1" -> 1 * 256
    [] state = "killed" -> SIGTERM
    [] OTHER -> 0

\* A runner_io_exit that stores the status whether or not a pid is recorded.
runner_io_exit_unconditional(r, status) ==
  [r EXCEPT !.pid = 0, !.exit_status = status]

\* runner_io_exit (pid, status, runner)
runner_io_exit(r, status) ==
  IF r.pid # 0
    THEN [r EXCEPT !.pid = 0, !.exit_status = status]
    ELSE r

\* Whether an asynchronous operation of this kind is outstanding on the
\* stream (GIO's pending flag, cleared before the callback is called).
busy(r, kind, stream) ==
  \E op \in r.pending : op.kind = kind /\ op.stream = stream /\ ~op.failed

\* g_input_stream_close (stream, NULL, NULL): with an operation outstanding
\* the call fails (G_IO_ERROR_PENDING) and the stream stays open.
g_input_stream_close(r, stream) ==
  IF busy(r, "read", stream) THEN r ELSE [r EXCEPT !.open_input = @ \ {stream}]

\* g_output_stream_close (stream, NULL, NULL), likewise.
g_output_stream_close(r, stream) ==
  IF busy(r, "write", stream) THEN r ELSE [r EXCEPT !.open_output = @ \ {stream}]

\* close_streams
close_streams(r) ==
  LET r1 == IF r.output_stream # 0
              THEN [g_output_stream_close(r, r.output_stream) EXCEPT !.output_stream = 0]
              ELSE r
      r2 == IF r1.input_stream # 0
              THEN [g_input_stream_close(r1, r1.input_stream) EXCEPT !.input_stream = 0]
              ELSE r1
  IN [r2 EXCEPT !.rest_buffer = <<>>]

\* The g_object_unref that drops the last reference to a stream: a stream
\* the runner no longer holds and no queued operation refers to is disposed
\* of, which closes it.
unref_streams(r) ==
  [r EXCEPT
     !.open_input = {st \in @ : \/ st = r.input_stream
                                 \/ \E op \in r.pending : op.kind = "read" /\ op.stream = st},
     !.open_output = {st \in @ : \/ st = r.output_stream
                                  \/ \E op \in r.pending : op.kind = "write" /\ op.stream = st}]

\* g_child_watch_add (pid, dummy_cb, NULL)
g_child_watch_add(r) == [r EXCEPT !.watched = @ \cup {r.pid}]

\* kill (pid, SIGTERM): a running child terminates, an exited one is
\* unaffected.
kill(r) ==
  LET r1 == [r EXCEPT !.kills[r.pid] = @ + 1] IN
  IF r1.child[r1.pid] = "running"
    THEN [r1 EXCEPT !.child[r1.pid] = "killed"]
    ELSE r1

\* A cancel that reports end-loading with the flag FALSE.
cancel_active_end_false(r) ==
  LET r1 == [r EXCEPT !.cancelled = @ \cup {r.cancellable},
                      !.cancellable = r.cancellable + 1]
      r2 == IF r1.pid # 0
              THEN runner_io_exit(kill(g_child_watch_add(r1)), EXIT_FAILURE)
              ELSE r1
  IN emit(close_streams(r2), "endF")

\* A gitg_runner_cancel that does not look at input_stream first.
gitg_runner_cancel_unguarded(r) ==
  LET r1 == [r EXCEPT !.cancelled = @ \cup {r.cancellable},
                      !.cancellable = r.cancellable + 1]
      r2 == IF r1.pid # 0
              THEN runner_io_exit(kill(g_child_watch_add(r1)), EXIT_FAILURE)
              ELSE r1
  IN emit(close_streams(r2), "endT")

\* The body of gitg_runner_cancel once input_stream is seen non-NULL.
cancel_active(r) ==
  LET r1 == [r EXCEPT !.cancelled = @ \cup {r.cancellable},
                      !.cancellable = r.cancellable + 1]
      r2 == IF r1.pid # 0
              THEN runner_io_exit(kill(g_child_watch_add(r1)), EXIT_FAILURE)
              ELSE r1
  IN emit(close_streams(r2), "endT")

\* gitg_runner_cancel
gitg_runner_cancel(r) ==
  IF r.input_stream # 0 THEN cancel_active(r) ELSE r

\* What a handler connected to update may do before it returns: nothing,
\* or call gitg_runner_cancel on the runner that is emitting.
handler(r, cancels) == IF cancels THEN gitg_runner_cancel(r) ELSE r

\* The signal parse_lines emits: the lines array, whatever it holds. The log
\* tells an empty array ("update0") from one with lines ("update").
update_signal(lines) == IF lines = <<>> THEN "update0" ELSE "update"

\* parse_lines (runner, buffer, size), then the update handler.
parse_lines(r, buffer, cancels) ==
  LET seg == segment(r.rest_buffer, buffer, preserve_line_endings)
      r1 == [r EXCEPT !.rest_buffer = seg.rest,
                      !.delivered = @ \o Flatten(seg.lines)]
  IN handler(emit(r1, update_signal(seg.lines)), cancels)

\* emit_rest (runner), then the update handler when it emitted.
emit_rest(r, cancels) ==
  LET ls == rest_lines(r.rest_buffer, preserve_line_endings) IN
  IF Len(r.rest_buffer) > 0
    THEN handler(emit([r EXCEPT !.delivered = @ \o Flatten(ls)], "update"), cancels)
    ELSE r

\* --------------------------------------------------------- asynchronous I/O
\* AsyncData: the token the operation was issued under, and whether
\* async_data_free has run on it. (data->runner is the one runner.)
async_data_new(token) == [token |-> token, freed |-> FALSE]
async_data_free(data) == [data EXCEPT !.freed = TRUE]

\* g_cancellable_is_cancelled (data->cancellable). On freed data the read is
\* of released memory, which may since hold anything, a newer token
\* included: both answers.
is_cancelled(r, data) ==
  IF data.freed THEN BOOLEAN ELSE {data.token \in r.cancelled}

\* g_input_stream_read_async / g_output_stream_write_async: the operation is
\* queued with its user data; on a NULL stream the call returns at its
\* precondition check and queues nothing. On a stream that has an operation
\* outstanding, or is closed, no I/O is started: the callback is queued with
\* the error (G_IO_ERROR_PENDING, G_IO_ERROR_CLOSED), here failed = TRUE.
issue(r, kind, stream, data) ==
  LET is_open == IF kind = "read" THEN stream \in r.open_input
                                  ELSE stream \in r.open_output
  IN IF stream = 0
       THEN r
     ELSE IF busy(r, kind, stream) \/ ~is_open
       THEN [r EXCEPT !.pending = @ \cup {[kind |-> kind, stream |-> stream,
                                            data |-> data, failed |-> TRUE]}]
     ELSE [r EXCEPT !.pending = @ \cup {[kind |-> kind, stream |-> stream,
                                          data |-> data, failed |-> FALSE]},
                    !.log = Append(@, kind)]

\* start_reading (runner, data)
start_reading(r, data) == issue(r, "read", r.input_stream, data)

\* async_failed (data)
async_failed(r) == emit(close_streams(runner_io_exit(r, 1)), "endT")

\* The text a read can return: up to buffer_size characters.
Chunks == SeqsUpTo({"a", LF}, BufferSize)

\* ------------------------------------------------------------------ Init
Init ==
  /\ pid = 0
  /\ input_stream = 0
  /\ output_stream = 0
  /\ cancellable = 1
  /\ rest_buffer = <<>>
  /\ exit_status = 0
  /\ synchronized \in BOOLEAN
  /\ preserve_line_endings \in BOOLEAN
  /\ cancelled = {}
  /\ pending = {}
  /\ child = [p \in 1..MaxLog |-> "none"]
  /\ kills = [p \in 1..MaxLog |-> 0]
  /\ watched = {}
  /\ reaped = {}
  /\ open_input = {}
  /\ open_output = {}
  /\ environment = NullEnvironment
  /\ last_add = <<>>
  /\ cancel_calls = 0
  /\ pc = "idle"
  /\ log = <<>>
  /\ consumed = <<>>
  /\ delivered = <<>>
  /\ ret = "none"
  /\ nruns = 0
  /\ segText = <<>>
  /\ segPos = 0
  /\ segCuts = {}
  /\ segEmpty = FALSE
  /\ segLines = <<>>
  /\ segBatch = <<>>
  /\ segDone = FALSE

\* ------------------------------------------------------------------- run
\* gitg_runner_run_streams up to and including the begin-loading signal.
run_streams_begin(r, stream, has_input) ==
  LET r1 == gitg_runner_cancel(r)
      r2 == [r1 EXCEPT !.output_stream = IF has_input THEN stream ELSE 0,
                       !.input_stream = stream,
                       !.delivered = <<>>]
  IN emit(r2, "begin")

\* gitg_runner_run_streams, asynchronous branch: the first operation.
run_streams_async(r, has_input) ==
  LET data == async_data_new(r.cancellable) IN
  IF has_input
    THEN issue(r, "write", r.output_stream, data)
    ELSE start_reading(r, data)

\* A run that emits begin-loading before it tries to spawn.
run_spawn_failed_after_begin(r) ==
  [emit(gitg_runner_cancel(r), "begin") EXCEPT !.pid = 0]

\* gitg_runner_run_with_arguments when g_spawn_async_with_pipes fails.
run_spawn_failed(r) == [gitg_runner_cancel(r) EXCEPT !.pid = 0]

\* gitg_runner_run_with_arguments when the child is spawned as new_pid.
run_spawned(r, new_pid, has_input) ==
  LET r1 == [gitg_runner_cancel(r) EXCEPT
               !.pid = new_pid,
               !.child[new_pid] = "running",
               !.open_input = @ \cup {new_pid},
               !.open_output = IF has_input THEN @ \cup {new_pid} ELSE @]
  IN run_streams_begin(r1, new_pid, has_input)

RunFail ==
  /\ pc = "idle"
  /\ Commit(run_spawn_failed(Cur))
  /\ ret' = "false"
  /\ UNCHANGED <<cvars, svars, pc, consumed, nruns>>
  /\ cancel_calls' = 0

RunAsync(has_input) ==
  /\ pc = "idle"
  /\ ~synchronized
  /\ Len(log) + 3 <= MaxLog
  /\ Commit(run_streams_async(run_spawned(Cur, nruns + 1, has_input), has_input))
  /\ ret' = "true"
  /\ nruns' = nruns + 1
  /\ consumed' = <<>>
  /\ UNCHANGED <<cvars, svars, pc>>
  /\ cancel_calls' = 0

RunSync(has_input) ==
  /\ pc = "idle"
  /\ synchronized
  /\ Len(log) + 3 <= MaxLog
  /\ Commit(run_spawned(Cur, nruns + 1, has_input))
  /\ pc' = IF has_input THEN "write" ELSE "read"
  /\ ret' = "none"
  /\ nruns' = nruns + 1
  /\ consumed' = <<>>
  /\ UNCHANGED <<cvars, svars>>
  /\ cancel_calls' = 0

\* gitg_runner_cancel called by the application between callbacks.
Cancel ==
  /\ pc = "idle"
  /\ cancel_calls < 2
  /\ Commit(gitg_runner_cancel(Cur))
  /\ UNCHANGED <<cvars, svars, pc, consumed, ret, nruns>>
  /\ cancel_calls' = cancel_calls + 1

\* ---------------------------------------------------------- completions
\* read_output_ready, its branches. c1 and c2 are the answers of the two
\* g_cancellable_is_cancelled calls, h whether the update handler cancels.

\* read > 0: parse_lines, then the next read unless cancelled meanwhile.
read_data(r, stream, data, chunk, h, c2) ==
  LET r1 == parse_lines(r, chunk, h) IN
  IF c2 THEN g_input_stream_close(r1, stream) ELSE start_reading(r1, data)

ReadCancelled(op) ==
  /\ TRUE \in is_cancelled(Cur, op.data)
  /\ Commit(unref_streams(g_input_stream_close([Cur EXCEPT !.pending = @ \ {op}],
                                               op.stream)))
  /\ UNCHANGED <<cvars, svars, pc, consumed, ret, nruns>>
  /\ cancel_calls' = 0

ReadError(op) ==
  /\ FALSE \in is_cancelled(Cur, op.data)
  /\ Commit(unref_streams(async_failed(
              g_input_stream_close([Cur EXCEPT !.pending = @ \ {op}], op.stream))))
  /\ UNCHANGED <<cvars, svars, pc, consumed, ret, nruns>>
  /\ cancel_calls' = 0

\* read == 0: emit_rest, then the blocking waitpid (WaitDone goes on).
ReadEnd(op) ==
  /\ ~op.failed
  /\ FALSE \in is_cancelled(Cur, op.data)
  /\ \E h \in BOOLEAN : Commit(emit_rest([Cur EXCEPT !.pending = @ \ {op}], h))
  /\ pc' = "wait"
  /\ UNCHANGED <<cvars, svars, consumed, ret, nruns>>
  /\ cancel_calls' = 0

ReadData(op) ==
  /\ ~op.failed
  /\ FALSE \in is_cancelled(Cur, op.data)
  /\ Len(log) + 2 <= MaxLog
  /\ \E chunk \in Chunks \ {<<>>}, h \in BOOLEAN :
       LET r0 == [Cur EXCEPT !.pending = @ \ {op}]
           r1 == parse_lines(r0, chunk, h)
       IN /\ \E c2 \in is_cancelled(r1, op.data) :
               Commit(unref_streams(read_data(r0, op.stream, op.data, chunk, h, c2)))
          /\ consumed' = consumed \o chunk
  /\ UNCHANGED <<cvars, svars, pc, ret, nruns>>
  /\ cancel_calls' = 0

ReadReady ==
  /\ pc = "idle"
  /\ \E op \in pending :
       /\ op.kind = "read"
       /\ \/ ReadCancelled(op)
          \/ ReadError(op)
          \/ ReadEnd(op)
          \/ ReadData(op)

\* write_input_ready. The cancelled branch frees the data and does not
\* return: control goes on to the error test below it with the freed data.
write_input_ready(r, data, is_c, error) ==
  LET d == IF is_c THEN async_data_free(data) ELSE data IN
  IF error THEN async_failed(r) ELSE start_reading(r, d)

WriteReady ==
  /\ pc = "idle"
  /\ \E op \in pending :
       /\ op.kind = "write"
       /\ \E is_c \in is_cancelled(Cur, op.data), error \in BOOLEAN :
            /\ op.failed => error
            /\ Commit(unref_streams(write_input_ready([Cur EXCEPT !.pending = @ \ {op}],
                                                      op.data, is_c, error)))
  /\ UNCHANGED <<cvars, svars, pc, consumed, ret, nruns>>
  /\ cancel_calls' = 0

\* A completion handler that reads AsyncData after async_data_free has
\* released it reads memory the allocator has taken back. Other than going
\* on with the old contents (WriteReady and ReadReady above), the process can
\* die on the access: data->runner is then no pointer to a runner. This is
\* write_input_ready in its cancelled branch, and read_output_ready for a
\* read that write_input_ready started with freed data.
uses_freed_data(r, op) ==
  \/ op.kind = "write" /\ op.data.token \in r.cancelled
  \/ op.kind = "read" /\ op.data.freed

Crash ==
  /\ pc = "idle"
  /\ \E op \in pending :
       /\ uses_freed_data(Cur, op)
       /\ pending' = pending \ {op}
  /\ pc' = "crashed"
  /\ UNCHANGED <<pid, input_stream, output_stream, cancellable, rest_buffer,
                 exit_status, cancelled, child, log, delivered,
                 kills, watched, reaped, open_input, open_output,
                 cvars, svars, consumed, ret, nruns>>
  /\ cancel_calls' = 0

\* The child ends by itself. The runner looks at a child only in waitpid,
\* so the exit is taken there: an exit before the wait began and one during
\* it are the same to the runner, and a child it no longer records is not
\* looked at.
ChildExit ==
  /\ pc = "wait"
  /\ \E p \in {pid} \ {0}, code \in {"exit0", "exit1"} :
       /\ child[p] = "running"
       /\ child' = [child EXCEPT ![p] = code]
  /\ UNCHANGED <<pid, input_stream, output_stream, cancellable, rest_buffer,
                 exit_status, cancelled, log, delivered, pending,
                 kills, watched, reaped, open_input, open_output,
                 cvars, svars, pc, consumed, ret, nruns>>
  /\ cancel_calls' = 0

\* waitpid (pid, &status, 0) and what follows it in run_sync and in
\* read_output_ready: runner_io_exit, close_streams, end-loading (FALSE).
\* With pid 0 (a handler cancelled meanwhile) waitpid waits for any child of
\* the process group: it fails at once (status stays 0) or reaps one, the
\* killed child that the child watch was added for. reaped records the
\* children waited for by their own pid.
wait_done(r, status) ==
  LET r1 == IF r.pid # 0 THEN [r EXCEPT !.reaped = @ \cup {r.pid}] ELSE r
  IN emit(close_streams(runner_io_exit(r1, status)), "endF")

WaitDone ==
  /\ pc = "wait"
  /\ \E status \in (IF pid # 0 THEN {wait_status(child[pid])} ELSE {0, SIGTERM}) :
       /\ pid # 0 => child[pid] # "running"
       /\ Commit(unref_streams(wait_done(Cur, status)))
       /\ ret' = IF synchronized
                   THEN (IF status = 0 THEN "true" ELSE "false")
                   ELSE ret
  /\ pc' = "idle"
  /\ UNCHANGED <<cvars, svars, consumed, nruns>>
  /\ cancel_calls' = 0

\* ------------------------------------------------------------- run_sync
\* g_output_stream_write_all of the input, then the close of the pipe.
sync_write_failed(r) == emit(close_streams(runner_io_exit(r, 1)), "endF")

SyncWrite ==
  /\ pc = "write"
  /\ \/ /\ Commit(sync_write_failed(emit(Cur, "write")))
        /\ pc' = "idle"
        /\ ret' = "false"
     \/ /\ Commit(emit(g_output_stream_close(emit(Cur, "write"), output_stream),
                       "close_out"))
        /\ pc' = "read"
        /\ ret' = ret
  /\ UNCHANGED <<cvars, svars, consumed, nruns>>
  /\ cancel_calls' = 0

\* g_input_stream_read_all failed (or returned at its precondition check on
\* a NULL stream).
sync_read_failed(r) == emit(close_streams(runner_io_exit(r, 1)), "endT")

\* One turn of the while loop of run_sync, and emit_rest when it leaves it.
SyncReadFail ==
  /\ pc = "read"
  /\ Commit(sync_read_failed(IF input_stream = 0 THEN Cur ELSE emit(Cur, "read")))
  /\ pc' = "idle"
  /\ ret' = "false"
  /\ UNCHANGED <<cvars, svars, consumed, nruns>>
  /\ cancel_calls' = 0

SyncReadFull ==
  /\ pc = "read"
  /\ input_stream # 0
  /\ Len(log) + 2 <= MaxLog
  /\ \E chunk \in {c \in Chunks : Len(c) = BufferSize}, h \in BOOLEAN :
       /\ Commit(parse_lines(emit(Cur, "read"), chunk, h))
       /\ consumed' = consumed \o chunk
  /\ UNCHANGED <<cvars, svars, pc, ret, nruns>>
  /\ cancel_calls' = 0

SyncReadLast ==
  /\ pc = "read"
  /\ input_stream # 0
  /\ \E chunk \in {c \in Chunks : Len(c) < BufferSize}, h1 \in BOOLEAN, h2 \in BOOLEAN :
       /\ chunk # <<>> => Len(log) + 2 <= MaxLog
       /\ Commit(emit_rest(parse_lines(emit(Cur, "read"), chunk, h1), h2))
       /\ consumed' = consumed \o chunk
  /\ pc' = "wait"
  /\ UNCHANGED <<cvars, svars, ret, nruns>>
  /\ cancel_calls' = 0

\* ------------------------------------------------------------------ Spec
Next ==
  \/ RunFail
  \/ \E has_input \in BOOLEAN : RunAsync(has_input)
  \/ \E has_input \in BOOLEAN : RunSync(has_input)
  \/ Cancel
  \/ ReadReady
  \/ WriteReady
  \/ Crash
  \/ ChildExit
  \/ WaitDone
  \/ SyncWrite
  \/ SyncReadFail
  \/ SyncReadFull
  \/ SyncReadLast

Spec == Init /\ [][Next]_vars

\* The GLib main loop dispatches every completion that is queued, a
\* blocking call of the main thread goes on, and a child that has closed
\* its output exits.
SyncStep == SyncWrite \/ SyncReadFail \/ SyncReadFull \/ SyncReadLast

Fairness ==
  /\ WF_vars(ReadReady)
  /\ WF_vars(WriteReady)
  /\ WF_vars(ChildExit)
  /\ WF_vars(WaitDone)
  /\ WF_vars(SyncStep)

FairSpec == Spec /\ Fairness

\* ----------------------------------------------------------- environment
\* The keys and values the calls are made with, and what g_listenv and
\* g_getenv report of the process's own environment.
Keys == {"K1", "K2"}
Values == {"v1", "v2"}
ProcessEnvironment == <<<<"K1", "v1">>>>

\* The vectors gitg_runner_set_environment is called with: no key twice.
EnvVectors ==
  {sv \in SeqsUpTo(Keys \X Values, 2) :
     \A i \in 1..Len(sv), j \in 1..Len(sv) : sv[i][1] = sv[j][1] => i = j}

\* gitg_runner_set_environment (runner, environment): the copy of the
\* vector, or NULL.
set_environment(env) ==
  IF env.is_null THEN NullEnvironment ELSE [is_null |-> FALSE, strv |-> env.strv]

\* What gitg_runner_add_environment works on: the vector, or on first use
\* the process's environment.
environment_or_default(e) == IF e.is_null THEN ProcessEnvironment ELSE e.strv

\* gitg_runner_add_environment (runner, key, value): "key=value" is stored
\* at index len, after every entry there is.
add_environment(e, key, value) ==
  [is_null |-> FALSE, strv |-> Append(environment_or_default(e), <<key, value>>)]

SetEnvironment ==
  /\ \E env \in {NullEnvironment} \cup {[is_null |-> FALSE, strv |-> sv] : sv \in EnvVectors} :
       environment' = set_environment(env)
  /\ last_add' = <<>>
  /\ UNCHANGED <<rvars, svars, synchronized, preserve_line_endings, pc,
                 consumed, ret, nruns, cancel_calls>>

AddEnvironment ==
  /\ Len(environment_or_default(environment)) < MaxEnv
  /\ \E key \in Keys, value \in Values :
       /\ environment' = add_environment(environment, key, value)
       /\ last_add' = <<key, value>>
  /\ UNCHANGED <<rvars, svars, synchronized, preserve_line_endings, pc,
                 consumed, ret, nruns, cancel_calls>>

EnvNext == SetEnvironment \/ AddEnvironment

EnvSpec == Init /\ [][EnvNext]_vars

\* --------------------------------------------------------------- SegSpec
\* The segmenter alone: a text is read in chunks of at most buffer_size
\* characters, cut anywhere (an empty chunk included, as the last read_all
\* of run_sync returns), each chunk goes through parse_lines, and at the
\* end of the stream emit_rest flushes the remainder.
SegInit ==
  /\ pid = 0
  /\ input_stream = 0
  /\ output_stream = 0
  /\ cancellable = 1
  /\ rest_buffer = <<>>
  /\ exit_status = 0
  /\ synchronized = TRUE
  /\ preserve_line_endings \in BOOLEAN
  /\ cancelled = {}
  /\ pending = {}
  /\ child = [p \in 1..MaxLog |-> "none"]
  /\ kills = [p \in 1..MaxLog |-> 0]
  /\ watched = {}
  /\ reaped = {}
  /\ open_input = {}
  /\ open_output = {}
  /\ environment = NullEnvironment
  /\ last_add = <<>>
  /\ cancel_calls = 0
  /\ pc = "idle"
  /\ log = <<>>
  /\ consumed = <<>>
  /\ delivered = <<>>
  /\ ret = "none"
  /\ nruns = 0
  /\ segText \in SeqsUpTo(Char, MaxText)
  /\ segPos = 0
  /\ segCuts = {}
  /\ segEmpty = FALSE
  /\ segLines = <<>>
  /\ segBatch = <<>>
  /\ segDone = FALSE

SegFeed ==
  /\ ~segDone
  /\ \E n \in 0..BufferSize :
       /\ segPos + n <= Len(segText)
       /\ LET seg == segment(rest_buffer, SubSeq(segText, segPos + 1, segPos + n),
                             preserve_line_endings)
          IN /\ rest_buffer' = seg.rest
             /\ segBatch' = seg.lines
             /\ segLines' = segLines \o seg.lines
       /\ segPos' = segPos + n
       /\ segCuts' = segCuts \cup {segPos + n}
       /\ segEmpty' = (segEmpty \/ n = 0)
  /\ UNCHANGED <<pid, input_stream, output_stream, cancellable, exit_status,
                 cancelled, child, log, delivered, pending, cvars, pc,
                 kills, watched, reaped, open_input, open_output,
                 cancel_calls, consumed, ret, nruns, segText, segDone>>

SegFlush ==
  /\ ~segDone
  /\ segPos = Len(segText)
  /\ segLines' = segLines \o rest_lines(rest_buffer, preserve_line_endings)
  /\ rest_buffer' = <<>>
  /\ segDone' = TRUE
  /\ UNCHANGED <<pid, input_stream, output_stream, cancellable, exit_status,
                 cancelled, child, log, delivered, pending, cvars, pc,
                 kills, watched, reaped, open_input, open_output,
                 cancel_calls, consumed, ret, nruns, segText, segPos, segCuts,
                 segEmpty, segBatch>>

SegNext == SegFeed \/ SegFlush

SegSpec == SegInit /\ [][SegNext]_vars

\* ======================================================= the segmenter's
\* properties, under SegSpec

\* C4: under the preserve policy the lines emitted so far followed by the
\* remainder are exactly the text read so far, at every chunk boundary, and
\* after emit_rest the emitted lines concatenated are the whole text,
\* however the text was cut into chunks.
C4_PreserveReconstructs ==
  preserve_line_endings =>
    IF segDone
      THEN Flatten(segLines) = segText
      ELSE Flatten(segLines) \o rest_buffer = SubSeq(segText, 1, segPos)

\* A text holding CR LF was cut between the CR and the LF, an empty chunk
\* was fed as well, and the stream has been flushed.
C4_Witness ==
  /\ segDone
  /\ preserve_line_endings
  /\ segEmpty
  /\ \E k \in segCuts :
       /\ 1 <= k /\ k < Len(segText)
       /\ segText[k] = CR
       /\ segText[k + 1] = LF

\* The reference segmentation of a whole text in one pass, by the rules:
\* LF ends a line; CR LF ends a line as one terminator; CR before another
\* character ends a line; what is left at the end of the stream is one last
\* line without terminator (a trailing CR stays in it under preserve and is
\* dropped from it under strip).
RECURSIVE RefLines(_, _, _)
RefLines(text, cur, preserve) ==
  IF text = <<>> THEN (IF cur = <<>> THEN <<>> ELSE <<cur>>)
  ELSE IF Head(text) = LF
    THEN <<cur \o (IF preserve THEN <<LF>> ELSE <<>>)>>
         \o RefLines(Tail(text), <<>>, preserve)
  ELSE IF Head(text) = CR /\ Len(text) = 1
    THEN <<cur \o (IF preserve THEN <<CR>> ELSE <<>>)>>
  ELSE IF Head(text) = CR /\ text[2] = LF
    THEN <<cur \o (IF preserve THEN <<CR, LF>> ELSE <<>>)>>
         \o RefLines(Tail(Tail(text)), <<>>, preserve)
  ELSE IF Head(text) = CR
    THEN <<cur \o (IF preserve THEN <<CR>> ELSE <<>>)>>
         \o RefLines(Tail(text), <<>>, preserve)
  ELSE RefLines(Tail(text), Append(cur, Head(text)), preserve)

\* C5: the lines emitted for a text (all batches in order, then the flush)
\* are the reference segmentation of the text, whatever the chunk split, and
\* while the last character read is a CR that CR is the end of the
\* remainder, not yet a boundary.
C5_SplitIndependent ==
  /\ segDone => segLines = RefLines(segText, <<>>, preserve_line_endings)
  /\ (~segDone /\ segPos > 0 /\ segText[segPos] = CR) =>
       /\ rest_buffer # <<>>
       /\ rest_buffer[Len(rest_buffer)] = CR

\* A flushed text in which a chunk ended on a CR that another character
\* (not LF) follows, and which holds two terminators in a row.
C5_Witness ==
  /\ segDone
  /\ \E k \in segCuts :
       /\ 1 <= k /\ k < Len(segText)
       /\ segText[k] = CR
       /\ segText[k + 1] \in Letters
  /\ \E k \in 1..(Len(segText) - 1) : segText[k] = LF /\ segText[k + 1] = LF

\* C6: under the strip policy no emitted line, of a batch or of the flush,
\* holds a CR or an LF.
C6_StripHasNoTerminator ==
  ~preserve_line_endings =>
    \A i \in 1..Len(segLines) :
      \A j \in 1..Len(segLines[i]) : segLines[i][j] \notin {CR, LF}

\* A flushed stream under strip whose text ended in a CR that was still in
\* the remainder at the flush, after a line ended by CR LF.
C6_Witness ==
  /\ segDone
  /\ ~preserve_line_endings
  /\ Len(segText) >= 4
  /\ segText[Len(segText)] = CR
  /\ segText[Len(segText) - 1] \in Letters
  /\ \E k \in 1..(Len(segText) - 1) : segText[k] = CR /\ segText[k + 1] = LF
  /\ Len(segLines) = 2

\* ========================================================= the runner's
\* properties, under Spec and FairSpec

Ends == {"endT", "endF"}
Updates == {"update", "update0"}
IO == {"read", "write", "close_out"}

\* Whether some entry of the log strictly between i and j is in S.
Between(i, j, S) == \E k \in (i + 1)..(j - 1) : log[k] \in S

\* The run that last emitted begin has not emitted end since.
ActiveRun ==
  \E i \in 1..Len(log) :
    /\ log[i] = "begin"
    /\ \A k \in (i + 1)..Len(log) : log[k] \notin Ends

\* C1: a run that emitted begin emits end at most once: two end signals
\* are always separated by a begin.
C1_EndAtMostOnce ==
  \A i \in 1..Len(log), j \in 1..Len(log) :
    (i < j /\ log[i] \in Ends /\ log[j] \in Ends) => Between(i, j, {"begin"})

\* The parts of C3.
\* begin comes before any read, write or update.
BeginFirst ==
  \A j \in 1..Len(log) :
    log[j] \in IO \cup Updates => \E i \in 1..(j - 1) : log[i] = "begin"

\* The lines delivered are, in order, the text of the chunks read (compared
\* without the terminators, which the strip policy leaves out).
DeliveredInOrder ==
  IF preserve_line_endings
    THEN IsPrefix(delivered, consumed)
    ELSE IsPrefix(DropTerminators(delivered), DropTerminators(consumed))

\* No update is delivered after a run's end, before the next begin.
NoUpdateAfterEnd ==
  \A i \in 1..Len(log), j \in 1..Len(log) :
    (i < j /\ log[i] \in Ends /\ log[j] \in Updates) => Between(i, j, {"begin"})

\* C3: within one run begin precedes every read, write and update, the
\* update batches carry the chunks' text in the order read, and no update
\* (the flushed remainder included) comes after the run's end.
C3_Ordering == BeginFirst /\ DeliveredInOrder /\ NoUpdateAfterEnd

\* C7: update is emitted only with a non-empty lines array.
C7_UpdateOnlyNonEmpty ==
  \A i \in 1..Len(log) : log[i] # "update0"

\* C2: every run that emitted begin eventually emits end.
C2_EndEventually == ActiveRun ~> ~ActiveRun

\* C8, its two parts. Two begins are always separated by an end: at most one
\* run is active.
OneActiveRun ==
  \A i \in 1..Len(log), j \in 1..Len(log) :
    (i < j /\ log[i] = "begin" /\ log[j] = "begin") => Between(i, j, Ends)

\* A run() that spawns a child while the previous run is active emits the
\* previous run's end (TRUE) and only then the new run's begin.
EndBeforeNextBegin ==
  (ActiveRun /\ nruns' = nruns + 1) =>
    /\ Len(log') >= Len(log) + 2
    /\ log'[Len(log) + 1] = "endT"
    /\ log'[Len(log) + 2] = "begin"

\* C8: starting a second run while the first is active cancels the first:
\* the first's end (TRUE) comes before the second's begin, and at most one
\* run is active at any time.
C8_SecondRunCancelsFirst == []OneActiveRun /\ [][EndBeforeNextBegin]_vars

\* A second run was started while the first had a read outstanding: the
\* first's read is still queued, under a cancelled token, the second's is
\* queued too, and the log shows end (TRUE) right before the second begin.
C8_Witness ==
  /\ nruns = 2
  /\ log = <<"begin", "read", "endT", "begin", "read">>
  /\ \E op \in pending : op.data.token \in cancelled /\ ~op.data.freed
  /\ \E op \in pending : op.data.token \notin cancelled

\* C9: a run whose first signal after begin is the end (TRUE) of a cancel
\* emits nothing more: no update and no second end before the next begin.
C9_CancelBeforeOutput ==
  \A i \in 1..Len(log), j \in 1..Len(log), k \in 1..Len(log) :
    ( /\ i < j /\ j < k
      /\ log[i] = "begin"
      /\ log[j] = "endT"
      /\ ~Between(i, j, Updates \cup Ends \cup {"begin"})
      /\ ~Between(j, k, {"begin"}) )
    => log[k] \notin Updates \cup Ends

\* What a failed spawn on an idle runner leaves behind.
SpawnFailureIsSilent ==
  (RunFail /\ input_stream = 0) =>
    /\ ret' = "false"
    /\ log' = log
    /\ pending' = pending
    /\ pid' = 0
    /\ input_stream' = 0
    /\ output_stream' = 0

\* C10: when spawning fails on an idle runner, run() returns FALSE, emits
\* no signal and issues no I/O, records no pid and installs no stream, so
\* the runner is still not running.
C10_SpawnFailure == [][SpawnFailureIsSilent]_vars

\* The first run() of a runner failed to spawn: nothing is logged, nothing
\* is recorded, and the runner is not running.
C10_Witness ==
  /\ ret = "false"
  /\ nruns = 0
  /\ log = <<>>
  /\ pid = 0
  /\ input_stream = 0

\* The parts of C11.
\* In every state a cancel() would emit nothing and change nothing when no
\* stream is installed, would emit exactly one end (TRUE) and signal no child
\* more than once when one is, and a second cancel() right after it would
\* change nothing more.
CancelIdempotent ==
  LET once == gitg_runner_cancel(Cur)
      twice == gitg_runner_cancel(once)
  IN /\ twice = once
     /\ input_stream = 0 => once = Cur
     /\ input_stream # 0 =>
          /\ once.log = Append(log, "endT")
          /\ \A p \in DOMAIN kills : once.kills[p] <= kills[p] + 1
          /\ pid # 0 => once.kills[pid] = 1

\* No child is ever signalled twice.
SignalledAtMostOnce == \A p \in DOMAIN kills : kills[p] <= 1

\* A cancel() call on a runner without an active run, and one that follows
\* another cancel() call directly, leave the runner as it was.
CancelNoOp ==
  (Cancel /\ (input_stream = 0 \/ cancel_calls >= 1)) => UNCHANGED rvars

\* C11: cancel() without an active run emits nothing and changes no run
\* state; cancel() twice in a row on an active run emits end exactly once and
\* signals the child at most once.
C11_CancelIdempotent ==
  /\ [](CancelIdempotent /\ SignalledAtMostOnce)
  /\ [][CancelNoOp]_vars

\* cancel() was called twice in a row on a run with a live child and a read
\* outstanding: one end (TRUE) in the log, one signal sent.
C11_Witness ==
  /\ cancel_calls = 2
  /\ log = <<"begin", "read", "endT">>
  /\ kills[1] = 1
  /\ child[1] = "killed"
  /\ pid = 0

\* C12: after the latest run ended normally (its child was waited for at the
\* end of the stream), exit_status is the exit code the child returned: 1
\* for a child that exited with code 1, 0 for one that exited with code 0.
C12_ExitStatusIsExitCode ==
  \A p \in reaped :
    p = nruns =>
      /\ child[p] = "exit1" => exit_status = 1
      /\ child[p] = "exit0" => exit_status = 0

\* The first end signal after the last begin, "none" when there is none.
FirstEndOfLastRun ==
  LET begins == {i \in 1..Len(log) : log[i] = "begin"}
      last == CHOOSE i \in begins : \A k \in begins : k <= i
      ends == {j \in (last + 1)..Len(log) : log[j] \in Ends}
  IN IF begins = {} \/ ends = {}
       THEN "none"
       ELSE log[CHOOSE j \in ends : \A k \in ends : j <= k]

\* C13: once the latest run was cancelled while its child was recorded (the
\* child watch marks it), the child has been sent SIGTERM once, the run's
\* end is end (TRUE), pid is 0 and exit_status is EXIT_FAILURE, and stays
\* so through every later completion, until another child is spawned.
C13_CancelLeavesFailure ==
  \A p \in watched :
    p = nruns =>
      /\ kills[p] = 1
      /\ child[p] # "running"
      /\ FirstEndOfLastRun = "endT"
      /\ pid = 0
      /\ exit_status = EXIT_FAILURE

\* An asynchronous run was cancelled by the handler of its last update, and
\* the completion that was running went on through waitpid to its end
\* (FALSE): the exit status is still EXIT_FAILURE.
C13_Witness ==
  /\ ~synchronized
  /\ nruns = 1
  /\ 1 \in watched
  /\ Len(log) >= 2
  /\ log[Len(log) - 1] = "endT"
  /\ log[Len(log)] = "endF"
  /\ exit_status = EXIT_FAILURE

\* gitg_runner_running
gitg_runner_running == input_stream # 0

\* The parts of C14. While no run is active the runner's fields hold nothing
\* of a run, and while one is active the runner is running.
FieldsCleared ==
  /\ ~ActiveRun =>
       /\ ~gitg_runner_running
       /\ output_stream = 0
       /\ pid = 0
       /\ rest_buffer = <<>>
  /\ ActiveRun => gitg_runner_running

\* While no run is active no stream of an earlier run is open.
StreamsClosed == ~ActiveRun => (open_input = {} /\ open_output = {})

\* C14: from the end signal until the next begin the runner is not running,
\* both stream handles are closed and cleared, pid is 0 and the remainder
\* is empty; from begin until then the runner is running.
C14_NoResourcesAfterEnd == FieldsCleared /\ StreamsClosed

\* ===================================================== the environment's
\* properties, under EnvSpec

\* The entries of a vector whose key is not k, in order.
RECURSIVE OtherEntries(_, _)
OtherEntries(strv, k) ==
  IF strv = <<>> THEN <<>>
  ELSE IF Head(strv)[1] = k THEN OtherEntries(Tail(strv), k)
  ELSE <<Head(strv)>> \o OtherEntries(Tail(strv), k)

\* What one gitg_runner_add_environment (key, value) call leaves.
AddSetsOneEntry ==
  AddEnvironment =>
    LET key == last_add'[1]
        before == environment_or_default(environment)
        after == environment'.strv
        at == {i \in 1..Len(after) : after[i][1] = key}
    IN /\ Cardinality(at) = 1
       /\ \A i \in at : after[i] = last_add'
       /\ OtherEntries(after, key) = OtherEntries(before, key)

\* C15: after any sequence of set and add calls, add (key, value) leaves
\* exactly one entry for key, with the new value, and every other entry as
\* it was.
C15_AddSetsOneEntry == [][AddSetsOneEntry]_vars

\* ========================================================= the runner's
\* properties, continued

\* C16: in a run given input, the write of the input and then the close of
\* the input pipe come before the first read is issued: between the run's
\* write and any read of the same run there is a close of the pipe.
C16_InputClosedBeforeRead ==
  \A i \in 1..Len(log), j \in 1..Len(log) :
    (i < j /\ log[i] = "write" /\ log[j] = "read" /\ ~Between(i, j, {"begin"}))
      => Between(i, j, {"close_out"})

\* C17: every child spawned that the runner no longer records has been
\* waited for by the runner, or handed to a child watch that will wait for
\* it, and not both: no outcome of a run clears pid without either.
C17_ChildReapedOnce ==
  \A p \in 1..nruns :
    p # pid => (p \in reaped) # (p \in watched)

\* C18: in asynchronous mode the main loop is never held inside waitpid by
\* a child that has closed its output and has not exited yet.
C18_AsyncNeverBlocks ==
  ~(~synchronized /\ pc = "wait" /\ pid # 0 /\ child[pid] = "running")

\* A step in which a read or a write of the active run fails: the run ends
\* in the step itself, without the wait for the child and without a
\* cancel() (no new token).
FailureStep ==
  /\ SyncStep \/ ReadReady \/ WriteReady
  /\ ActiveRun
  /\ ~ActiveRun'
  /\ cancellable' = cancellable
  /\ pc' = "idle"

\* What the handling of a failure leaves, whichever of the two failed.
FailureHandled ==
  FailureStep =>
    /\ exit_status' = EXIT_FAILURE
    /\ pid' = 0
    /\ input_stream' = 0
    /\ output_stream' = 0
    /\ log'[Len(log')] = "endF"
    /\ \A k \in (Len(log) + 1)..Len(log') : log'[k] \notin Updates

\* C19: a read failure and a write failure are handled alike in each mode:
\* exit_status is EXIT_FAILURE, nothing more is streamed, the streams are
\* closed, and the end signal carries FALSE, TRUE being kept for cancel().
C19_FailuresHandledAlike == [][FailureHandled]_vars

\* The parts of C20.
\* A step that delivers the completion of an operation issued under a token
\* that has since been cancelled.
StaleCompletion ==
  /\ ReadReady \/ WriteReady
  /\ \E op \in pending : op \notin pending' /\ op.data.token \in cancelled

\* Such a step leaves the runner's run alone: pid, exit status, the stream
\* handles and whether the current streams are open are as before, nothing
\* is emitted and no operation is issued.
StaleIsInert ==
  StaleCompletion =>
    /\ UNCHANGED <<pid, exit_status, input_stream, output_stream, log>>
    /\ pending' \subseteq pending
    /\ input_stream # 0 => (input_stream \in open_input' <=> input_stream \in open_input)
    /\ output_stream # 0 => (output_stream \in open_output' <=> output_stream \in open_output)

\* At most one operation is outstanding on the streams of the active run.
OneOutstanding ==
  input_stream # 0 =>
    Cardinality({op \in pending : ~op.failed /\ op.stream = input_stream}) <= 1

\* C20: a completion that belongs to a cancelled run never closes the
\* current streams, never changes pid or exit status, never issues a read
\* on the current run's stream and never emits a signal; so at most one
\* read or write is outstanding on the active run's streams.
C20_StaleCompletionInert == []OneOutstanding /\ [][StaleIsInert]_vars

\* The parts of C21.
\* The token in force is never a cancelled one.
TokenFresh == cancellable \notin cancelled

\* The operation a run starts with is issued under a token that is not
\* cancelled.
FirstOperationFresh ==
  (nruns' = nruns + 1) =>
    \A op \in pending' \ pending : op.data.token \notin cancelled'

\* A run started after a cancelled one is ended with TRUE only by a cancel
\* of its own (a new token is made), a failure of its own I/O apart: never
\* by what is left of the cancelled run.
EndTrueOnlyByOwnCancel ==
  (ActiveRun /\ cancelled # {} /\ ~ActiveRun' /\ log'[Len(log')] = "endT")
    => \/ cancellable' # cancellable
       \/ FailureStep /\ ~StaleCompletion

\* C21: cancellation is never stuck: the token under which a new run issues
\* its first read or write is not cancelled, so a run started after a
\* cancelled run goes on to end (FALSE) unless it is cancelled itself.
C21_CancellationNeverStuck ==
  /\ []TokenFresh
  /\ [][FirstOperationFresh /\ EndTrueOnlyByOwnCancel]_vars

\* ======================================================= the segmenter's
\* properties, continued, under SegSpec

\* C22, as stated: after every parse_lines step the remainder is shorter
\* than the buffer size.
C22_RemainderBelowBufferSize == Len(rest_buffer) < BufferSize

\* A remainder that is the open part of a line: no LF, and no CR but as its
\* last character.
OpenLine(rest) ==
  \A i \in 1..Len(rest) :
    /\ rest[i] # LF
    /\ rest[i] = CR => i = Len(rest)

\* What one parse_lines step leaves as the remainder, the chunk being the
\* segPos' - segPos characters read.
RemainderAfterStep ==
  SegFeed =>
    LET size == segPos' - segPos IN
    /\ OpenLine(rest_buffer')
    /\ Len(rest_buffer') <= Len(rest_buffer) + size
    /\ segBatch' # <<>> => Len(rest_buffer') <= size

\* C22, amended: after every parse_lines step the remainder is the open
\* part of the last line only (no terminator but a CR at its very end); it
\* is no longer than the old remainder and the chunk together, and no longer
\* than the chunk, so at most the buffer size, when the step cut a line.
C22_RemainderIsOpenLine == [][RemainderAfterStep]_vars

\* A step cut a line at the CR the remainder ended with and left a whole
\* chunk of buffer-size characters as the new remainder.
C22_Witness ==
  /\ ~segDone
  /\ segBatch # <<>>
  /\ Len(rest_buffer) = BufferSize

\* C23: the lines parse_lines stores for one chunk are never more than
\* buffer_size, whatever remainder was carried in (one ending in a pending
\* CR included) and whatever the chunk of at most buffer_size characters:
\* the lines array of buffer_size + 1 slots holds them and the final NULL.
C23_LinesFitArray == Len(segBatch) <= BufferSize

\* The remainder carried in was a lone pending CR (the first chunk was that
\* CR), and the next chunk, a full buffer, was cut into buffer_size lines,
\* the first of them ended by the carried CR.
C23_Witness ==
  /\ ~segDone
  /\ segPos = BufferSize + 1
  /\ segCuts = {1, BufferSize + 1}
  /\ segText[1] = CR
  /\ Len(segBatch) = BufferSize

====
